---- MODULE Spec2Model ----
(***************************************************************************)
(* A model of the IKA heater-stirrer driver                                *)
(* (unilabos/devices/heaterstirrer/ika.py): the NAMUR transport client     *)
(* IkaNamurClient and the device facade HeaterStirrer_IKA.                 *)
(*                                                                         *)
(* Text is a sequence of one-character strings.  Numbers that the code     *)
(* passes through float() are fixed-point values counted in units of       *)
(* 1/Scale, so that int(float(x)) truncates instead of being the identity. *)
(***************************************************************************)
EXTENDS Integers, Sequences, FiniteSets, TLC

VARIABLES
  ser,          \* IkaNamurClient._ser: the current session id, None when absent
  created,      \* number of serial.Serial sessions constructed so far
  openSess,     \* ids of the sessions whose is_open is true
  wire,         \* every Serial.write() performed so far, in order
  stir_speed,   \* HeaterStirrer_IKA._stir_speed
  temp_target,  \* HeaterStirrer_IKA._temp_target (fixed-point units)
  status,       \* HeaterStirrer_IKA._status
  pc,           \* position of the caller inside the call in progress
  op,           \* the call in progress: its name, arguments and locals
  trace,        \* what the call in progress has done so far, in order
  remaining,    \* units left of the asyncio.sleep() in progress
  pre,          \* the stored state when the call in progress was entered
  prev,         \* the client call completed before the one in progress
  ncalls,       \* number of top-level calls entered so far
  input,        \* the token sequence under test (SpecSend only)
  now,          \* time.time(), in ticks
  inbuf,        \* the input buffer of the session: bytes received, unread
  devq,         \* the answers the device has yet to send, in order
  th,           \* the worker threads: where each is in send(), its locals
  nx,           \* number of exchanges begun so far
  hist          \* what has happened so far: exchanges overlapped, bytes late

\* The variables of the exchange taken step by step.
xvars == <<now, inbuf, devq, th, nx, hist>>

vars == <<ser, created, openSess, wire, stir_speed, temp_target, status,
          pc, op, trace, remaining, pre, prev, ncalls, input,
          now, inbuf, devq, th, nx, hist>>

-----------------------------------------------------------------------------
(* Bounds of the model. *)

\* Fixed-point resolution: a numeric input u stands for the number u/Scale.
Scale == 2
\* Longest token and longest token sequence handed to send() in SpecSend.
MaxTokLen == 2
MaxTokens == 2
\* Number of facade calls in one behaviour of Spec.
MaxCalls == 2
\* Number of client calls in one behaviour of SpecClient.
MaxClientCalls == 3
\* Number of protocol actions in one behaviour of SpecActions.
MaxActions == 1
\* Number of exchanges begun in one behaviour of SpecRead and SpecConcurrent.
MaxExchanges == 2

-----------------------------------------------------------------------------
(* Text: str.upper(), " ".join(), str(int), str.encode("ascii"). *)

None == 0

\* The delays of send() in ticks of half a second, a delay shorter than a tick
\* lasting one: time.sleep(0.25) of line 45, the timeout of line 14 (1.0 by
\* default), time.sleep(0.02) of line 53.
Settle == 1
Timeout == 2
Poll == 1

\* The defaults of HeaterStirrer_IKA.__init__ (lines 91-92).
DefaultSpeed == 0
DefaultTemp == 20

CR == "\r"
LF == "\n"
CRLF == <<CR, LF>>

LowerAlpha == <<"a","b","c","d","e","f","g","h","i","j","k","l","m",
                "n","o","p","q","r","s","t","u","v","w","x","y","z">>
UpperAlpha == <<"A","B","C","D","E","F","G","H","I","J","K","L","M",
                "N","O","P","Q","R","S","T","U","V","W","X","Y","Z">>
Digits == <<"0","1","2","3","4","5","6","7","8","9">>

Range(s) == {s[i] : i \in DOMAIN s}

\* The characters that str.encode("ascii") accepts, as far as the model's
\* alphabet goes.
AsciiChars ==
  Range(LowerAlpha) \cup Range(UpperAlpha) \cup Range(Digits)
    \cup {"_", " ", "-", ".", CR, LF}

\* str.upper() of one character: a sequence, since it may change the length.
UpperChar(c) ==
  IF c \in Range(LowerAlpha)
    THEN <<UpperAlpha[CHOOSE i \in DOMAIN LowerAlpha : LowerAlpha[i] = c]>>
  ELSE IF c = "é" THEN <<"É">>
  ELSE IF c = "ß" THEN <<"S", "S">>
  ELSE <<c>>

RECURSIVE Upper(_)
Upper(s) == IF s = <<>> THEN <<>> ELSE UpperChar(Head(s)) \o Upper(Tail(s))

\* " ".join(tokens)
RECURSIVE Join(_)
Join(tokens) ==
  IF tokens = <<>> THEN <<>>
  ELSE IF Len(tokens) = 1 THEN tokens[1]
  ELSE tokens[1] \o <<" ">> \o Join(Tail(tokens))

\* str(n) of an integer n
RECURSIVE NatToStr(_)
NatToStr(n) ==
  IF n < 10 THEN <<Digits[n + 1]>>
  ELSE NatToStr(n \div 10) \o <<Digits[(n % 10) + 1]>>

IntToStr(n) == IF n < 0 THEN <<"-">> \o NatToStr(-n) ELSE NatToStr(n)

\* A Python int n, as a value next to the floats of the section on numbers.
PyInt(n) == [k |-> "int", v |-> n]

\* The decimals of r/Scale for 0 <= r < Scale, as repr() of a float prints
\* them: "0" for a whole number, else the digits of the long division, at most
\* n of them.
RECURSIVE FracDigits(_, _)
FracDigits(r, n) ==
  IF r = 0 \/ n = 0 THEN <<>>
  ELSE <<Digits[((10 * r) \div Scale) + 1]>> \o FracDigits((10 * r) % Scale, n - 1)

\* str(f) of the float u/Scale: always with a decimal point.
FloatToStr(u) ==
  LET a == IF u < 0 THEN -u ELSE u
      frac == IF a % Scale = 0 THEN <<"0">> ELSE FracDigits(a % Scale, 16)
  IN  (IF u < 0 THEN <<"-">> ELSE <<>>) \o NatToStr(a \div Scale) \o <<".">> \o frac

\* str(x) of a number x
str(x) ==
  CASE x.k = "int" -> IntToStr(x.v)
    [] x.k = "num" -> FloatToStr(x.v)
    [] x.k = "inf" -> <<"i", "n", "f">>
    [] x.k = "ninf" -> <<"-", "i", "n", "f">>
    [] x.k = "nan" -> <<"n", "a", "n">>

\* Whether text.encode("ascii") succeeds.
Encodable(s) == \A i \in DOMAIN s : s[i] \in AsciiChars

\* Lines 41-42 of send(): the line and the payload built from the tokens.
Line(tokens) == Upper(Join(tokens))
\* (mutant: the line is sent as given, not uppercased)
Payload_NotUppercased(tokens) == Join(tokens) \o CRLF
Payload(tokens) == Line(tokens) \o CRLF

\* The NAMUR tokens the driver uses.
OUT_SP_4 == <<"O","U","T","_","S","P","_","4">>
START_4 == <<"S","T","A","R","T","_","4">>
STOP_4 == <<"S","T","O","P","_","4">>
OUT_SP_1 == <<"O","U","T","_","S","P","_","1">>
START_1 == <<"S","T","A","R","T","_","1">>


-----------------------------------------------------------------------------
(* IkaNamurClient: the serial session and send(). *)

\* `self._ser and self._ser.is_open`
IsOpen == ser # None /\ ser \in openSess

\* What the environment may do to one send(): let it through, refuse the
\* port (serial.Serial() raises), or fail the write (write_timeout).
Outcomes == {"ok", "open_fail", "write_fail"}

\* The outcomes that differ in the current state: the port can only be
\* refused when a session has to be set up.
Possible(o) == o = "open_fail" => ~IsOpen

Session(s, c, o) == [exc |-> "", ser |-> s, created |-> c, openSess |-> o]

\* (mutant: open() without the guard of line 21)
open_unguarded(o) ==
  IF o = "open_fail"
    THEN [Session(ser, created, openSess) EXCEPT !.exc = "SerialException"]
  ELSE Session(created + 1, created + 1, openSess \cup {created + 1})

\* open(): the session fields after the call, and the exception raised ("" when
\* none).  Nothing is assigned when serial.Serial() raises.
open(o) ==
  IF IsOpen THEN Session(ser, created, openSess)
  ELSE IF o = "open_fail"
    THEN [Session(ser, created, openSess) EXCEPT !.exc = "SerialException"]
  ELSE Session(created + 1, created + 1, openSess \cup {created + 1})

\* close(): is_open becomes false, _ser keeps the closed session.
close == IF IsOpen THEN openSess \ {ser} ELSE openSess

WriteEvent(s, data, ok) == [e |-> "write", sess |-> s, data |-> data, ok |-> ok]

\* (mutant: send() writes on the session as it is, without lines 39-40)
send_no_auto_open(tokens, o) ==
  LET s == Session(ser, created, openSess)
      payload == Payload(tokens)
  IN  IF ~Encodable(payload)
        THEN [s |-> s, exc |-> "UnicodeEncodeError", writes |-> <<>>]
      ELSE IF o = "write_fail"
        THEN [s |-> s, exc |-> "SerialTimeoutException",
              writes |-> <<WriteEvent(s.ser, payload, FALSE)>>]
      ELSE [s |-> s, exc |-> "", writes |-> <<WriteEvent(s.ser, payload, TRUE)>>]

\* (mutant: send() closes the session when the write fails)
send_closes_on_failure(tokens, o) ==
  LET s == IF ~IsOpen THEN open(o) ELSE Session(ser, created, openSess)
      payload == Payload(tokens)
  IN  IF s.exc # "" THEN [s |-> s, exc |-> s.exc, writes |-> <<>>]
      ELSE IF ~Encodable(payload)
        THEN [s |-> s, exc |-> "UnicodeEncodeError", writes |-> <<>>]
      ELSE IF o = "write_fail"
        THEN [s |-> [s EXCEPT !.openSess = @ \ {s.ser}],
              exc |-> "SerialTimeoutException",
              writes |-> <<WriteEvent(s.ser, payload, FALSE)>>]
      ELSE [s |-> s, exc |-> "", writes |-> <<WriteEvent(s.ser, payload, TRUE)>>]

\* send(*tokens) up to and including the write of line 44: the session fields
\* after the call, the writes it performed and the exception raised.
send(tokens, o) ==
  LET s == IF ~IsOpen THEN open(o) ELSE Session(ser, created, openSess)
      payload == Payload(tokens)
  IN  IF s.exc # "" THEN [s |-> s, exc |-> s.exc, writes |-> <<>>]
      ELSE IF ~Encodable(payload)
        THEN [s |-> s, exc |-> "UnicodeEncodeError", writes |-> <<>>]
      ELSE IF o = "write_fail"
        THEN [s |-> s, exc |-> "SerialTimeoutException",
              writes |-> <<WriteEvent(s.ser, payload, FALSE)>>]
      ELSE [s |-> s, exc |-> "", writes |-> <<WriteEvent(s.ser, payload, TRUE)>>]

\* The convenience commands of lines 66-73.
set_speed(rpm) == <<OUT_SP_4, str(rpm)>>
start == <<START_4>>
stop == <<STOP_4>>

\* The session events a send adds to the trace of the call in progress.
OpenEvents(s) ==
  IF s.created # created THEN <<[e |-> "open", sess |-> s.ser]>> ELSE <<>>

Return(val) == [e |-> "return", val |-> val]
Raise(exc) == [e |-> "raise", exc |-> exc]

NoOp == [name |-> "", args |-> <<>>, speed_int |-> 0, phase |-> 0,
         stir_s |-> <<>>, settle_s |-> <<>>]
Snapshot ==
  [stir_speed |-> stir_speed, temp_target |-> temp_target, ser |-> ser,
   created |-> created, isOpen |-> IsOpen]
NoSnapshot ==
  [stir_speed |-> 0, temp_target |-> <<>>, ser |-> None, created |-> 0,
   isOpen |-> FALSE]
NoCall == [name |-> "", ok |-> TRUE, pre |-> NoSnapshot, exc |-> ""]

Call(name, args) == [NoOp EXCEPT !.name = name, !.args = args]

\* The session fields take the values of s.
SetSession(s) ==
  /\ ser' = s.ser
  /\ created' = s.created
  /\ openSess' = s.openSess

\* A call is entered from the idle state.
Enter(call) ==
  /\ pc = "idle"
  /\ ncalls' = ncalls + 1
  /\ op' = call
  /\ pre' = Snapshot

UnchangedFacade == UNCHANGED <<stir_speed, temp_target, status>>

\* A direct call of IkaNamurClient.open().
open_call ==
  \E o \in {"ok", "open_fail"} :
    LET s == open(o)
    IN  /\ Possible(o)
        /\ Enter(Call("open", <<>>))
        /\ SetSession(s)
        /\ trace' = OpenEvents(s)
                      \o <<IF s.exc = "" THEN Return("None") ELSE Raise(s.exc)>>
        /\ pc' = IF s.exc = "" THEN "done" ELSE "raised"
        /\ UNCHANGED <<wire, remaining, prev, input, xvars>>
        /\ UnchangedFacade

\* A direct call of IkaNamurClient.close().
close_call ==
  /\ Enter(Call("close", <<>>))
  /\ openSess' = close
  /\ trace' = <<Return("None")>>
  /\ pc' = "done"
  /\ UNCHANGED <<ser, created, wire, remaining, prev, input, xvars>>
  /\ UnchangedFacade

\* A direct call of IkaNamurClient.send(*tokens).
send_call(tokens) ==
  \E o \in Outcomes :
    LET r == send(tokens, o)
    IN  /\ Possible(o)
        /\ Enter(Call("send", tokens))
        /\ SetSession(r.s)
        /\ wire' = wire \o r.writes
        /\ trace' = OpenEvents(r.s) \o r.writes
                      \o <<IF r.exc = "" THEN Return("str") ELSE Raise(r.exc)>>
        /\ pc' = IF r.exc = "" THEN "done" ELSE "raised"
        /\ UNCHANGED <<remaining, prev, input, xvars>>
        /\ UnchangedFacade

\* A direct call of IkaNamurClient.set_speed(rpm), lines 66-67.
set_speed_call(rpm) ==
  \E o \in Outcomes :
    LET r == send(set_speed(rpm), o)
    IN  /\ Possible(o)
        /\ Enter(Call("set_speed", <<rpm>>))
        /\ SetSession(r.s)
        /\ wire' = wire \o r.writes
        /\ trace' = OpenEvents(r.s) \o r.writes
                      \o <<IF r.exc = "" THEN Return("str") ELSE Raise(r.exc)>>
        /\ pc' = IF r.exc = "" THEN "done" ELSE "raised"
        /\ UNCHANGED <<remaining, prev, input, xvars>>
        /\ UnchangedFacade

\* The finished client call is left: the caller is idle again.
client_return ==
  /\ pc \in {"done", "raised"}
  /\ op.name \in {"open", "close", "send", "set_speed"}
  /\ pc' = "idle"
  /\ prev' = [name |-> op.name, ok |-> pc = "done", pre |-> pre,
              exc |-> IF pc = "raised" THEN trace[Len(trace)].exc ELSE ""]
  /\ op' = NoOp
  /\ trace' = <<>>
  /\ UNCHANGED <<ser, created, openSess, wire, remaining, pre, ncalls, input, xvars>>
  /\ UnchangedFacade

-----------------------------------------------------------------------------
(* SpecSend: one send() of every bounded token sequence, on a client whose  *)
(* session is absent, open or closed.                                       *)

TokenChars == {"a", "_", "é"}

RECURSIVE SeqsUpTo(_, _)
SeqsUpTo(S, n) ==
  IF n = 0 THEN {<<>>}
  ELSE LET shorter == SeqsUpTo(S, n - 1)
       IN  shorter \cup {Append(s, x) : s \in shorter, x \in S}

Tokens == SeqsUpTo(TokenChars, MaxTokLen)
TokenSeqs == SeqsUpTo(Tokens, MaxTokens)

\* A client just constructed (line 18), one after open(), one after open()
\* and close().
ClientStates ==
  { [ser |-> None, created |-> 0, openSess |-> {}],
    [ser |-> 1, created |-> 1, openSess |-> {1}],
    [ser |-> 1, created |-> 1, openSess |-> {}] }

InitFacadeFields ==
  /\ stir_speed = DefaultSpeed
  /\ temp_target = [k |-> "num", v |-> DefaultTemp * Scale]
  /\ status = "Idle"

\* The worker threads that asyncio.to_thread() may start.
Threads == {1, 2}

\* A worker that has not been started.
IdleThread ==
  [pc |-> "idle", cmds |-> <<>>, cmd |-> <<>>, speed_int |-> 0, x |-> 0,
   stale |-> {}, buf |-> <<>>, wrote |-> 0, end |-> 0, wake |-> 0, n |-> 0,
   seen |-> 0, due |-> <<>>, resp |-> <<>>]

\* No exchange has begun: the clock at 0, nothing received, no worker started.
InitExchange ==
  /\ now = 0
  /\ inbuf = <<>>
  /\ devq = <<>>
  /\ th = [t \in Threads |-> IdleThread]
  /\ nx = 0
  /\ hist = [overlap |-> FALSE, late |-> FALSE]

InitCaller ==
  /\ pc = "idle"
  /\ op = NoOp
  /\ trace = <<>>
  /\ remaining = <<>>
  /\ prev = NoCall
  /\ ncalls = 0
  /\ InitExchange

InitSend ==
  /\ \E c \in ClientStates :
       /\ ser = c.ser
       /\ created = c.created
       /\ openSess = c.openSess
  /\ wire = <<>>
  /\ InitFacadeFields
  /\ InitCaller
  /\ pre = Snapshot
  /\ input \in TokenSeqs

send_input == ncalls = 0 /\ send_call(input)

NextSend ==
  \/ send_input
  \/ client_return

SpecSend == InitSend /\ [][NextSend]_vars


-----------------------------------------------------------------------------
(* Numbers: float(), int(), max(0.0, .) on fixed-point values. *)

\* What a caller may pass where a number is expected: a number u/Scale, text
\* that is no number, an object that is neither text nor number, an infinity,
\* a NaN.
Num(u) == [k |-> "num", v |-> u]
Text == [k |-> "text", v |-> 0]
Obj == [k |-> "obj", v |-> 0]
Inf == [k |-> "inf", v |-> 0]
NegInf == [k |-> "ninf", v |-> 0]
NaN == [k |-> "nan", v |-> 0]

Value(val) == [exc |-> "", val |-> val]
Error(exc) == [exc |-> exc, val |-> 0]

\* float(x)
float(x) ==
  CASE x.k = "text" -> Error("ValueError")
    [] x.k = "obj" -> Error("TypeError")
    [] OTHER -> Value(x)

\* Truncation toward zero of u/Scale.
Trunc(u) == IF u >= 0 THEN u \div Scale ELSE -((-u) \div Scale)

\* int(f) of a float f
int(f) ==
  CASE f.k = "num" -> Value(Trunc(f.v))
    [] f.k \in {"inf", "ninf"} -> Error("OverflowError")
    [] OTHER -> Error("ValueError")

\* int(float(x))
int_float(x) == LET f == float(x) IN IF f.exc # "" THEN f ELSE int(f.val)

\* (mutant: f >= 0)
Positive_or_zero(f) == (f.k = "num" /\ f.v >= 0) \/ f.k = "inf"

\* f > 0 of a float f
Positive(f) == (f.k = "num" /\ f.v > 0) \/ f.k = "inf"

\* max(0.0, f): f when f > 0.0, else the first argument.
max0(f) == IF Positive(f) THEN f ELSE Num(0)

Caught == {"ValueError", "TypeError"}

\* Lines 142-145 and 168-171: the speed, 0 when the conversion raises one of
\* the exceptions caught.
coerce_speed(x) ==
  LET r == int_float(x) IN IF r.exc \in Caught THEN Value(0) ELSE r

\* Lines 164-167 and 172-175: the seconds, 0.0 when the conversion raises.
coerce_seconds(x) ==
  LET f == float(x) IN IF f.exc \in Caught THEN Num(0) ELSE max0(f.val)

-----------------------------------------------------------------------------
(* HeaterStirrer_IKA: the facade. *)

\* One send of the call in progress: on success the call goes on at `next`.
SendStep(tokens, next) ==
  \E o \in Outcomes :
    LET r == send(tokens, o)
    IN  /\ Possible(o)
        /\ SetSession(r.s)
        /\ wire' = wire \o r.writes
        /\ IF r.exc = ""
             THEN /\ pc' = next
                  /\ trace' = trace \o OpenEvents(r.s) \o r.writes
             ELSE /\ pc' = "raised"
                  /\ trace' = trace \o OpenEvents(r.s) \o r.writes
                                \o <<Raise(r.exc)>>

\* A call starts with a conversion that may raise: it goes on at `next` with
\* its locals set, or ends raising.
EnterConverted(call, r, next) ==
  /\ Enter(call)
  /\ IF r.exc = ""
       THEN pc' = next /\ trace' = <<>>
       ELSE pc' = "raised" /\ trace' = <<Raise(r.exc)>>

\* (mutant: only a positive speed counts as running)
StatusOf_positive(speed) == IF speed > 0 THEN "Running" ELSE "Idle"

\* status (lines 96-99)
StatusOf(speed) == IF speed = 0 THEN "Idle" ELSE "Running"

status_get ==
  /\ pc = "idle"
  /\ status' = StatusOf(stir_speed)
  /\ op' = Call("status", <<>>)
  /\ pre' = Snapshot
  /\ trace' = <<Return(status')>>
  /\ pc' = "done"
  /\ UNCHANGED <<ser, created, openSess, wire, stir_speed, temp_target,
                 remaining, prev, ncalls, input, xvars>>

\* set_stir_speed(speed), line 106
set_stir_speed_call(speed) ==
  LET r == int_float(speed)
  IN  /\ EnterConverted([Call("set_stir_speed", <<speed>>)
                           EXCEPT !.speed_int = r.val], r, "set_speed")
      /\ UNCHANGED <<ser, created, openSess, wire, remaining, prev, input, xvars>>
      /\ UnchangedFacade

\* set_stir_speed, line 107
set_stir_speed_set_speed ==
  /\ pc = "set_speed"
  /\ SendStep(set_speed(PyInt(op.speed_int)), "motor")
  /\ UNCHANGED <<op, remaining, pre, prev, ncalls, input, xvars>>
  /\ UnchangedFacade

\* (mutant: the motor is started for a speed of 0 too)
motor_command_from_zero(speed_int) == IF speed_int >= 0 THEN start ELSE stop

\* The command of lines 108-111.
motor_command(speed_int) == IF speed_int > 0 THEN start ELSE stop

\* Where the caller of set_stir_speed goes on once it has returned:
\* <<pc, op, remaining, events>>.
ToStop == [op EXCEPT !.phase = 2, !.speed_int = 0]

\* (mutant: stir does not wait before it stops the motor)
after_set_stir_speed_no_sleep ==
  CASE op.name = "set_stir_speed" -> <<"done", op, remaining, <<Return("None")>>>>
    [] op.name \in {"start_stir", "stop_stir"} ->
         <<"done", op, remaining, <<Return("True")>>>>
    [] op.name = "stir" /\ op.phase = 1 -> <<"set_speed", ToStop, remaining, <<>>>>
    [] op.name = "stir" /\ op.phase = 2 ->
         IF Positive(op.settle_s)
           THEN <<"sleep", op, op.settle_s, <<>>>>
           ELSE <<"done", op, remaining, <<Return("True")>>>>

\* (mutant: stir returns after its first set_stir_speed when there is no wait)
after_set_stir_speed_no_stop ==
  CASE op.name = "set_stir_speed" -> <<"done", op, remaining, <<Return("None")>>>>
    [] op.name \in {"start_stir", "stop_stir"} ->
         <<"done", op, remaining, <<Return("True")>>>>
    [] op.name = "stir" /\ op.phase = 1 ->
         IF Positive(op.stir_s)
           THEN <<"sleep", op, op.stir_s, <<>>>>
           ELSE <<"done", op, remaining, <<Return("True")>>>>
    [] op.name = "stir" /\ op.phase = 2 ->
         IF Positive(op.settle_s)
           THEN <<"sleep", op, op.settle_s, <<>>>>
           ELSE <<"done", op, remaining, <<Return("True")>>>>

after_set_stir_speed ==
  CASE op.name = "set_stir_speed" -> <<"done", op, remaining, <<Return("None")>>>>
    [] op.name \in {"start_stir", "stop_stir"} ->
         <<"done", op, remaining, <<Return("True")>>>>
    [] op.name = "stir" /\ op.phase = 1 ->
         IF Positive(op.stir_s)
           THEN <<"sleep", op, op.stir_s, <<>>>>
           ELSE <<"set_speed", ToStop, remaining, <<>>>>
    [] op.name = "stir" /\ op.phase = 2 ->
         IF Positive(op.settle_s)
           THEN <<"sleep", op, op.settle_s, <<>>>>
           ELSE <<"done", op, remaining, <<Return("True")>>>>

\* set_stir_speed, lines 108-112: the motor command, then the stored speed.
set_stir_speed_motor ==
  /\ pc = "motor"
  /\ \E o \in Outcomes :
       LET r == send(motor_command(op.speed_int), o)
           k == after_set_stir_speed
       IN  /\ Possible(o)
           /\ SetSession(r.s)
           /\ wire' = wire \o r.writes
           /\ IF r.exc = ""
                THEN /\ stir_speed' = op.speed_int
                     /\ pc' = k[1]
                     /\ op' = k[2]
                     /\ remaining' = k[3]
                     /\ trace' = trace \o OpenEvents(r.s) \o r.writes \o k[4]
                ELSE /\ stir_speed' = stir_speed
                     /\ pc' = "raised"
                     /\ op' = op
                     /\ remaining' = remaining
                     /\ trace' = trace \o OpenEvents(r.s) \o r.writes
                                   \o <<Raise(r.exc)>>
  /\ UNCHANGED <<temp_target, status, pre, prev, ncalls, input, xvars>>

\* set_temp_target(temp), line 119
set_temp_target_call(temp) ==
  LET f == float(temp)
  IN  /\ EnterConverted(Call("set_temp_target", <<temp>>), f, "temp_setpoint")
      /\ temp_target' = IF f.exc = "" THEN f.val ELSE temp_target
      /\ UNCHANGED <<ser, created, openSess, wire, stir_speed, status,
                     remaining, prev, input, xvars>>

\* set_temp_target, line 120
set_temp_target_setpoint ==
  /\ pc = "temp_setpoint"
  /\ LET n == int(temp_target)
     IN  IF n.exc = ""
           THEN SendStep(<<OUT_SP_1, IntToStr(n.val)>>, "temp_start")
           ELSE /\ pc' = "raised"
                /\ trace' = trace \o <<Raise(n.exc)>>
                /\ UNCHANGED <<ser, created, openSess, wire>>
  /\ UNCHANGED <<op, remaining, pre, prev, ncalls, input, xvars>>
  /\ UnchangedFacade

\* set_temp_target, line 121
set_temp_target_start ==
  /\ pc = "temp_start"
  /\ SendStep(<<START_1>>, "done")
  /\ UNCHANGED <<op, remaining, pre, prev, ncalls, input, xvars>>
  /\ UnchangedFacade

\* HeaterStirrer_IKA.close(), lines 189-190
facade_close ==
  /\ Enter(Call("facade_close", <<>>))
  /\ openSess' = close
  /\ trace' = <<Return("None")>>
  /\ pc' = "done"
  /\ UNCHANGED <<ser, created, wire, remaining, prev, input, xvars>>
  /\ UnchangedFacade

\* start_stir(vessel, stir_speed), lines 141-147.  The vessel id is extracted
\* and dropped.
start_stir_call(speed) ==
  LET r == coerce_speed(speed)
  IN  /\ EnterConverted([Call("start_stir", <<speed>>)
                           EXCEPT !.speed_int = r.val], r, "set_speed")
      /\ UNCHANGED <<ser, created, openSess, wire, remaining, prev, input, xvars>>
      /\ UnchangedFacade

\* stop_stir(vessel), lines 152-153
stop_stir_call ==
  /\ EnterConverted(Call("stop_stir", <<>>), Value(0), "set_speed")
  /\ UNCHANGED <<ser, created, openSess, wire, remaining, prev, input, xvars>>
  /\ UnchangedFacade

\* stir(stir_time, stir_speed, settling_time), lines 164-178
stir_call(stir_time, speed, settling_time) ==
  LET r == coerce_speed(speed)
  IN  /\ EnterConverted(
           [Call("stir", <<stir_time, speed, settling_time>>)
              EXCEPT !.speed_int = r.val, !.phase = 1,
                     !.stir_s = coerce_seconds(stir_time),
                     !.settle_s = coerce_seconds(settling_time)],
           r, "set_speed")
      /\ UNCHANGED <<ser, created, openSess, wire, remaining, prev, input, xvars>>
      /\ UnchangedFacade

\* One unit of time passes during an asyncio.sleep().
tick ==
  /\ pc = "sleep"
  /\ remaining.k = "num"
  /\ remaining.v > 0
  /\ remaining' = Num(remaining.v - 1)
  /\ UNCHANGED <<ser, created, openSess, wire, pc, op, trace, pre, prev,
                 ncalls, input, xvars>>
  /\ UnchangedFacade

SleepEvent(dur, left) == [e |-> "sleep", dur |-> dur, left |-> left]

\* asyncio.sleep() is over once its delay has passed.
Elapsed == remaining = Num(0)

\* stir, lines 180-187: after the first sleep the stop, after the second the
\* return.
wake ==
  /\ pc = "sleep"
  /\ Elapsed
  /\ IF op.phase = 1
       THEN /\ pc' = "set_speed"
            /\ op' = ToStop
            /\ trace' = Append(trace, SleepEvent(op.stir_s, remaining))
       ELSE /\ pc' = "done"
            /\ op' = op
            /\ trace' = trace \o <<SleepEvent(op.settle_s, remaining),
                                   Return("True")>>
  /\ UNCHANGED <<ser, created, openSess, wire, remaining, pre, prev, ncalls,
                 input, xvars>>
  /\ UnchangedFacade

FacadeCalls ==
  {"status", "set_stir_speed", "set_temp_target", "facade_close",
   "start_stir", "stop_stir", "stir"}

\* The finished facade call is left: the caller is idle again.
facade_return ==
  /\ pc \in {"done", "raised"}
  /\ op.name \in FacadeCalls
  /\ pc' = "idle"
  /\ op' = NoOp
  /\ trace' = <<>>
  /\ UNCHANGED <<ser, created, openSess, wire, remaining, pre, prev, ncalls,
                 input, xvars>>
  /\ UnchangedFacade

\* The inputs the calls are tried on.
SpeedInputs == {Num(u) : u \in (-Scale)..(2 * Scale)} \cup {Text, Obj, Inf, NaN}
TempInputs ==
  {Num(u) : u \in (DefaultTemp * Scale - 1)..((DefaultTemp + 1) * Scale)}
    \cup {Text, Inf}
SecondsInputs == {Num(u) : u \in -1..2} \cup {Text, NaN, Inf}

\* The state after HeaterStirrer_IKA.__init__ (lines 89-94): the session is
\* open.
Init ==
  /\ ser = 1
  /\ created = 1
  /\ openSess = {1}
  /\ wire = <<>>
  /\ InitFacadeFields
  /\ InitCaller
  /\ pre = Snapshot
  /\ input = <<>>

set_stir_speed_any == \E speed \in SpeedInputs : set_stir_speed_call(speed)
set_temp_target_any == \E temp \in TempInputs : set_temp_target_call(temp)

Next ==
  \/ ncalls < MaxCalls /\ set_stir_speed_any
  \/ ncalls < MaxCalls /\ set_temp_target_any
  \/ ncalls < MaxCalls /\ facade_close
  \/ status_get
  \/ set_stir_speed_set_speed
  \/ set_stir_speed_motor
  \/ set_temp_target_setpoint
  \/ set_temp_target_start
  \/ facade_return

Spec == Init /\ [][Next]_vars

start_stir_any == \E speed \in SpeedInputs : start_stir_call(speed)
stir_any ==
  \E stir_time \in SecondsInputs, speed \in SpeedInputs,
     settling_time \in SecondsInputs :
    stir_call(stir_time, speed, settling_time)

NextActions ==
  \/ ncalls < MaxActions /\ start_stir_any
  \/ ncalls < MaxActions /\ stop_stir_call
  \/ ncalls < MaxActions /\ stir_any
  \/ set_stir_speed_set_speed
  \/ set_stir_speed_motor
  \/ tick
  \/ wake
  \/ facade_return

SpecActions == Init /\ [][NextActions]_vars

-----------------------------------------------------------------------------
(* SpecClient: open(), close() and send() called on a fresh client. *)

ClientCmds == {start, stop}

InitClient ==
  /\ ser = None
  /\ created = 0
  /\ openSess = {}
  /\ wire = <<>>
  /\ InitFacadeFields
  /\ InitCaller
  /\ pre = Snapshot
  /\ input = <<>>

send_cmd == \E tokens \in ClientCmds : send_call(tokens)

\* The speeds set_speed() is tried on: the int 2, the floats 2.0 and
\* 2 + 1/Scale.
RpmInputs == {PyInt(2), [k |-> "num", v |-> 2 * Scale],
              [k |-> "num", v |-> 2 * Scale + 1]}

set_speed_any == \E rpm \in RpmInputs : set_speed_call(rpm)

NextClient ==
  \/ ncalls < MaxClientCalls /\ open_call
  \/ ncalls < MaxClientCalls /\ close_call
  \/ ncalls < MaxClientCalls /\ send_cmd
  \/ ncalls < MaxClientCalls /\ set_speed_any
  \/ client_return

SpecClient == InitClient /\ [][NextClient]_vars

-----------------------------------------------------------------------------
(* SpecSession: one client used directly and through its facade.  The       *)
(* facade exists once the open() of its constructor (line 94) has set up a  *)
(* session.                                                                  *)

FacadeConstructed == created > 0

NextSession ==
  \/ ncalls < MaxClientCalls /\ open_call
  \/ ncalls < MaxClientCalls /\ close_call
  \/ ncalls < MaxClientCalls /\ send_cmd
  \/ ncalls < MaxClientCalls /\ FacadeConstructed /\ facade_close
  \/ ncalls < MaxClientCalls /\ FacadeConstructed /\ stop_stir_call
  \/ set_stir_speed_set_speed
  \/ set_stir_speed_motor
  \/ client_return
  \/ facade_return

SpecSession == InitClient /\ [][NextSession]_vars

-----------------------------------------------------------------------------
(* The exchange of send() taken step by step (lines 39-54), as the worker   *)
(* threads that asyncio.to_thread() starts run it for set_stir_speed (lines  *)
(* 105-112).  The session is open and stays open.  A step of a thread takes  *)
(* no time: the clock advances only while some thread waits.                 *)

\* The device answers a command with a line, here a digit and a line feed.
\* A byte carries the exchange it answers and its place in the answer.
ReplyText == <<"0", LF>>
Reply(x) == [i \in DOMAIN ReplyText |-> [x |-> x, i |-> i, ch |-> ReplyText[i]]]

Whitespace == {" ", "\t", CR, LF}

\* str.strip()
RECURSIVE LStrip(_)
LStrip(b) ==
  IF b # <<>> /\ Head(b).ch \in Whitespace THEN LStrip(Tail(b)) ELSE b

RECURSIVE RStrip(_)
RStrip(b) ==
  IF b # <<>> /\ b[Len(b)].ch \in Whitespace
    THEN RStrip(SubSeq(b, 1, Len(b) - 1))
    ELSE b

Strip(b) == RStrip(LStrip(b))

\* bytes.decode("ascii", errors="ignore"): the bytes that are not ASCII are
\* dropped.
IsAsciiByte(y) == y.ch \in AsciiChars \cup {"\t"}
Decode(b) == SelectSeq(b, IsAsciiByte)

\* Line 54: what send() returns for the bytes accumulated.
Response(b) == Strip(Decode(b))

\* (mutant: the input buffer is not reset)
reset_input_buffer_keeps(b) == b

\* Serial.reset_input_buffer() of line 43: what is left of the buffer.
reset_input_buffer(b) == <<>>

\* Serial.in_waiting
in_waiting == Len(inbuf)

\* `self._ser.in_waiting or 1` of line 49
size_to_read(waiting) == IF waiting # 0 THEN waiting ELSE 1

\* (mutant: the loop goes on only while both hold)
LoopContinues_both(t_now, t_end, waiting) == t_now < t_end /\ waiting # 0

\* The condition of the while of line 48.
LoopContinues(t_now, t_end, waiting) == t_now < t_end \/ waiting # 0

\* (mutant: read() empties the buffer whatever the size asked for, and
\* returns the bytes asked for)
Read_flushes(b, size) ==
  LET k == IF Len(b) >= size THEN size ELSE Len(b)
  IN  [data |-> SubSeq(b, 1, k), rest |-> <<>>]

\* Serial.read(size) once it returns: the first `size` bytes of the buffer, or
\* all of it when the read timed out with fewer.
Read(b, size) ==
  LET k == IF Len(b) >= size THEN size ELSE Len(b)
  IN  [data |-> SubSeq(b, 1, k), rest |-> SubSeq(b, k + 1, Len(b))]

\* Where a thread is between its write and the end of its read loop.
Window == {"settle", "check", "read", "poll"}

\* Another thread is between its write and the end of its read loop.
Overlaps(t) == \E u \in Threads \ {t} : th[u].pc \in Window

\* What the exchange steps leave alone.
ExchangeFrame ==
  UNCHANGED <<ser, created, openSess, temp_target, status, pc, op, trace,
              remaining, pre, prev, ncalls, input>>

\* A thread enters send() for the first of cmds (lines 39-42): the bytes then
\* unread are the stale input of this exchange.
Begin(r, cmds) ==
  [r EXCEPT !.pc = "reset", !.cmd = Head(cmds), !.cmds = Tail(cmds),
            !.x = nx + 1, !.stale = Range(inbuf), !.buf = <<>>, !.due = <<>>,
            !.resp = <<>>, !.seen = 0, !.n = 0]

\* `await asyncio.to_thread(self.set_stir_speed, speed_int)` (lines 146, 153,
\* 177, 182): the worker t runs set_stir_speed up to its first send.
to_thread(t, speed_int) ==
  /\ th[t].pc = "idle"
  /\ nx < MaxExchanges
  /\ th' = [th EXCEPT ![t] =
              Begin([@ EXCEPT !.speed_int = speed_int],
                    <<set_speed(PyInt(speed_int)), motor_command(speed_int)>>)]
  /\ nx' = nx + 1
  /\ UNCHANGED <<now, inbuf, devq, hist, wire, stir_speed>>
  /\ ExchangeFrame

\* send(), line 43
send_reset(t) ==
  /\ th[t].pc = "reset"
  /\ inbuf' = reset_input_buffer(inbuf)
  /\ th' = [th EXCEPT ![t].pc = "write"]
  /\ hist' = [hist EXCEPT !.overlap = @ \/ Overlaps(t)]
  /\ UNCHANGED <<now, devq, nx, wire, stir_speed>>
  /\ ExchangeFrame

\* send(), lines 44-45: the write, which may time out, then the settle delay
\* begins.  The device queues its answer to a command it has received.
send_write(t) ==
  /\ th[t].pc = "write"
  /\ \E o \in {"ok", "write_fail"} :
       /\ wire' = Append(wire, WriteEvent(ser, Payload(th[t].cmd), o = "ok"))
       /\ IF o = "ok"
            THEN /\ devq' = Append(devq, Reply(th[t].x))
                 /\ th' = [th EXCEPT ![t].pc = "settle", ![t].wrote = now,
                                     ![t].wake = now + Settle]
            ELSE /\ devq' = devq
                 /\ th' = [th EXCEPT ![t].pc = "raised"]
  /\ hist' = [hist EXCEPT !.overlap = @ \/ Overlaps(t)]
  /\ UNCHANGED <<now, inbuf, nx, stir_speed>>
  /\ ExchangeFrame

\* send(), line 48 and what follows it at once: when the loop goes on, the
\* size of line 49 is taken and read() is called; when it does not, the
\* response of line 54 is returned.  The thread r has its deadline set.
while_loop(r) ==
  IF LoopContinues(now, r.end, in_waiting)
    THEN [r EXCEPT !.pc = "read", !.seen = in_waiting,
                   !.n = size_to_read(in_waiting), !.wake = now + Timeout]
    ELSE [r EXCEPT !.pc = "returned", !.seen = in_waiting,
                   !.resp = Response(r.buf), !.n = 0, !.wake = 0]

\* send(), lines 45-49: the settle delay is over, the deadline is set, the
\* loop is entered.
send_settle(t) ==
  /\ th[t].pc = "settle"
  /\ now >= th[t].wake
  /\ th' = [th EXCEPT ![t] =
              while_loop([@ EXCEPT !.buf = <<>>, !.end = now + Timeout])]
  /\ UNCHANGED <<now, inbuf, devq, nx, hist, wire, stir_speed>>
  /\ ExchangeFrame

\* send(), lines 48-49 after bytes were accumulated.
send_check(t) ==
  /\ th[t].pc = "check"
  /\ th' = [th EXCEPT ![t] = while_loop(@)]
  /\ UNCHANGED <<now, inbuf, devq, nx, hist, wire, stir_speed>>
  /\ ExchangeFrame

\* send(), lines 49-53: read(size) returns once size bytes are there or the
\* timeout of the session has run out; the bytes are accumulated, or the
\* sleep of line 53 begins.
send_read(t) ==
  /\ th[t].pc = "read"
  /\ in_waiting >= th[t].n \/ now >= th[t].wake
  /\ LET r == Read(inbuf, th[t].n)
     IN  /\ inbuf' = r.rest
         /\ th' = [th EXCEPT ![t] =
                     IF r.data # <<>>
                       THEN [@ EXCEPT !.pc = "check", !.buf = @ \o r.data]
                       ELSE [@ EXCEPT !.pc = "poll", !.wake = now + Poll]]
  /\ UNCHANGED <<now, devq, nx, hist, wire, stir_speed>>
  /\ ExchangeFrame

\* send(), line 53 and lines 48-49 after it: the sleep is over.
send_poll(t) ==
  /\ th[t].pc = "poll"
  /\ now >= th[t].wake
  /\ th' = [th EXCEPT ![t] = while_loop(@)]
  /\ UNCHANGED <<now, inbuf, devq, nx, hist, wire, stir_speed>>
  /\ ExchangeFrame

\* set_stir_speed after a send has returned: the motor command of lines
\* 108-111 is sent next, or the speed is stored (line 112).
send_return(t) ==
  /\ th[t].pc = "returned"
  /\ IF th[t].cmds # <<>>
       THEN /\ nx < MaxExchanges
            /\ th' = [th EXCEPT ![t] = Begin(@, @.cmds)]
            /\ nx' = nx + 1
            /\ stir_speed' = stir_speed
       ELSE /\ th' = [th EXCEPT ![t].pc = "finished"]
            /\ nx' = nx
            /\ stir_speed' = th[t].speed_int
  /\ UNCHANGED <<now, inbuf, devq, hist, wire>>
  /\ ExchangeFrame

\* A thread waits: in a sleep, or in a read that has not the bytes it asked
\* for.
Waits(t) ==
  \/ th[t].pc \in {"settle", "poll"} /\ now < th[t].wake
  \/ th[t].pc = "read" /\ in_waiting < th[t].n /\ now < th[t].wake

\* One tick of the clock passes.
clock_tick ==
  /\ \E t \in Threads : Waits(t)
  /\ now' = now + 1
  /\ UNCHANGED <<inbuf, devq, th, nx, hist, wire, stir_speed>>
  /\ ExchangeFrame

\* The device sends its next answer, whenever it likes, or never; its bytes
\* arrive together.  The answer is due to the exchange it answers if that
\* exchange has not left its read loop, and late otherwise.
device_send ==
  /\ devq # <<>>
  /\ LET b == Head(devq)
         owner == {t \in Threads : th[t].x = b[1].x /\ th[t].pc \in Window}
     IN  /\ inbuf' = inbuf \o b
         /\ devq' = Tail(devq)
         /\ th' = [t \in Threads |->
                     IF t \in owner THEN [th[t] EXCEPT !.due = @ \o b]
                                    ELSE th[t]]
         /\ hist' = [hist EXCEPT !.late = @ \/ owner = {}]
  /\ UNCHANGED <<now, nx, wire, stir_speed>>
  /\ ExchangeFrame

\* The speeds the workers are started with.
WorkerSpeeds == {0, 2}

\* SpecRead: one worker runs set_stir_speed, its two exchanges one after the
\* other.
NextRead ==
  \/ \E k \in WorkerSpeeds : to_thread(1, k)
  \/ send_reset(1)
  \/ send_write(1)
  \/ send_settle(1)
  \/ send_check(1)
  \/ send_read(1)
  \/ send_poll(1)
  \/ send_return(1)
  \/ clock_tick
  \/ device_send

SpecRead == Init /\ [][NextRead]_vars

\* SpecReadFair: the same, the worker running on and time passing.
Progress ==
  \/ send_reset(1)
  \/ send_write(1)
  \/ send_settle(1)
  \/ send_check(1)
  \/ send_read(1)
  \/ send_poll(1)
  \/ send_return(1)
  \/ clock_tick

SpecReadFair == Init /\ [][NextRead]_vars /\ WF_vars(Progress)

\* SpecConcurrent: two protocol actions not serialised by their caller, stir
\* or start_stir with speed 2 and then, at any time, stop_stir, each with its
\* worker.
NextConcurrent ==
  \/ to_thread(1, 2)
  \/ th[1].pc # "idle" /\ to_thread(2, 0)
  \/ \E t \in Threads : send_reset(t)
  \/ \E t \in Threads : send_write(t)
  \/ \E t \in Threads : send_settle(t)
  \/ \E t \in Threads : send_check(t)
  \/ \E t \in Threads : send_read(t)
  \/ \E t \in Threads : send_poll(t)
  \/ \E t \in Threads : send_return(t)
  \/ clock_tick
  \/ device_send

SpecConcurrent == Init /\ [][NextConcurrent]_vars

-----------------------------------------------------------------------------
(* Properties. *)

IsWrite(ev) == ev.e = "write"
IsSleep(ev) == ev.e = "sleep"
IsOpenEvent(ev) == ev.e = "open"

\* The writes, the suspensions and the session setups of the call in progress.
Writes(tr) == SelectSeq(tr, IsWrite)
Sleeps(tr) == SelectSeq(tr, IsSleep)
Setups(tr) == SelectSeq(tr, IsOpenEvent)

Finished == pc \in {"done", "raised"}
Last(s) == s[Len(s)]

\* A finished call that had a session to write on: none was needed or the
\* port was not refused.
HadSession == ~(Finished /\ Last(trace) = Raise("SerialException"))

\* C1 as stated: every send(T) of a non-empty token sequence T writes exactly
\* one payload, upper(join(T, " ")) + CR LF.  (Read with a session to write
\* on; it fails on a token that is not ASCII.)
C1_Original ==
  (Finished /\ op.name = "send" /\ op.args # <<>> /\ HadSession) =>
    /\ Len(Writes(trace)) = 1
    /\ Writes(trace)[1].data = Upper(Join(op.args)) \o <<"\r", "\n">>

\* C1 amended: a send(T) of a non-empty token sequence T whose uppercased line
\* is ASCII, with a session to write on, calls write exactly once, with
\* upper(join(T, " ")) + CR LF, and writes nothing else; when the line is not
\* ASCII or the port is refused it raises and writes nothing.
C1_SendWritesPayload ==
  (Finished /\ op.name = "send" /\ op.args # <<>>) =>
    LET expected == Upper(Join(op.args)) \o <<"\r", "\n">>
        ascii == \A i \in DOMAIN expected : expected[i] \in AsciiChars
    IN  /\ wire = Writes(trace)
        /\ IF HadSession /\ ascii
             THEN /\ Len(wire) = 1
                  /\ wire[1].data = expected
                  /\ wire[1].sess = ser
                  /\ IsOpen
             ELSE /\ wire = <<>>
                  /\ pc = "raised"
                  /\ Last(trace) \in
                       {Raise("SerialException"), Raise("UnicodeEncodeError")}

\* A send of two tokens with lower-case letters has written its payload.
C1_Witness ==
  /\ pc = "done"
  /\ op.name = "send"
  /\ op.args = << <<"a">>, <<"_", "a">> >>
  /\ wire = <<WriteEvent(ser, <<"A", " ", "_", "A", "\r", "\n">>, TRUE)>>

\* C10: open() on a client whose session is open sets up no session and leaves
\* the session as it is, so that two open() calls in a row set up one session
\* when none was open before them and none otherwise.
C10_OpenIdempotent ==
  (Finished /\ op.name = "open") =>
    /\ pre.isOpen =>
         /\ pc = "done"
         /\ created = pre.created
         /\ ser = pre.ser
         /\ IsOpen
         /\ Setups(trace) = <<>>
    /\ (pc = "done" /\ prev.name = "open" /\ prev.ok) =>
         /\ pre.isOpen
         /\ created - prev.pre.created = (IF prev.pre.isOpen THEN 0 ELSE 1)

\* Two open() calls in a row on a fresh client: one session has been set up.
C10_Witness ==
  /\ pc = "done"
  /\ op.name = "open"
  /\ prev.name = "open"
  /\ prev.ok
  /\ ~prev.pre.isOpen
  /\ created = 1
  /\ IsOpen

\* The command line the device is to receive for the tokens.
Command(tokens) == Upper(Join(tokens)) \o <<"\r", "\n">>
SpeedCommand(n) == Command(<<OUT_SP_4, IntToStr(n)>>)
TempCommand(n) == Command(<<OUT_SP_1, IntToStr(n)>>)
StartCommand == Command(<<START_4>>)
StopCommand == Command(<<STOP_4>>)

IsPrefix(s, t) == Len(s) <= Len(t) /\ s = SubSeq(t, 1, Len(s))
StartsWith(s, p) == IsPrefix(p, s)

\* The payloads of the writes of a trace, in order.
Datas(tr) == [i \in DOMAIN Writes(tr) |-> Writes(tr)[i].data]

\* No send of the call in progress has failed.
NoFailure ==
  \A i \in DOMAIN trace :
    /\ trace[i].e # "raise"
    /\ trace[i].e = "write" => trace[i].ok

IsNumber(x) == x.k = "num"

\* C2 as stated: set_stir_speed(0) issues STOP_4, set_stir_speed(n) for n > 0
\* issues OUT_SP_4 n then START_4 with nothing between them.  (Read for the
\* calls that return; OUT_SP_4 carries the integer part of n.)
C2_Original ==
  (pc = "done" /\ op.name = "set_stir_speed" /\ IsNumber(op.args[1])) =>
    LET n == op.args[1].v
    IN  /\ n = 0 => Last(Datas(trace)) = StopCommand
        /\ n > 0 => Datas(trace) = <<SpeedCommand(Trunc(n)), StartCommand>>

\* C2 amended: with k = int(float(n)), the speed truncated toward zero, a
\* set_stir_speed(n) that returns has written exactly OUT_SP_4 k followed by
\* START_4 when k > 0 and exactly OUT_SP_4 k followed by STOP_4 when k <= 0
\* (so for 0 < n < 1 it stops); whatever fails, the writes of the call are a
\* prefix of these two, so START_4 is never written for k <= 0 nor STOP_4 for
\* k > 0.
C2_SetStirSpeedCommands ==
  (op.name = "set_stir_speed" /\ IsNumber(op.args[1])) =>
    LET k == Trunc(op.args[1].v)
        both == <<SpeedCommand(k), IF k > 0 THEN StartCommand ELSE StopCommand>>
    IN  /\ IsPrefix(Datas(trace), both)
        /\ pc = "done" => Datas(trace) = both /\ NoFailure
        /\ \A i \in DOMAIN trace : trace[i].e # "sleep"

\* set_stir_speed(2.0) has returned: OUT_SP_4 2 then START_4 are on the wire.
C2_Witness ==
  /\ pc = "done"
  /\ op.name = "set_stir_speed"
  /\ op.args = <<Num(2 * Scale)>>
  /\ Datas(trace) = <<Command(<<OUT_SP_4, <<"2">>>>), Command(<<START_4>>)>>
  /\ Datas(wire) = Datas(trace)

\* A write of the call in progress has failed and the call has raised.
WriteFailed ==
  /\ pc = "raised"
  /\ Writes(trace) # <<>>
  /\ ~Last(Writes(trace)).ok

\* C3: when a write fails during set_stir_speed or set_temp_target, the call
\* raises and stir_speed and temp_target are what they were before the call.
C3_FailureLeavesStateUnchanged ==
  (op.name \in {"set_stir_speed", "set_temp_target"} /\ WriteFailed) =>
    /\ stir_speed = pre.stir_speed
    /\ temp_target = pre.temp_target

\* The speed and temperature setpoints written with success so far.
IsSpeedWrite(w) == w.ok /\ StartsWith(w.data, OUT_SP_4 \o <<" ">>)
IsTempWrite(w) == w.ok /\ StartsWith(w.data, OUT_SP_1 \o <<" ">>)
SpeedWrites == SelectSeq(wire, IsSpeedWrite)
TempWrites == SelectSeq(wire, IsTempWrite)

\* C4: between calls, stir_speed is the speed of the last OUT_SP_4 written
\* with success (0 if none) and temp_target the setpoint of the last OUT_SP_1
\* written with success (20 if none).
C4_StateReflectsLastWritten ==
  pc = "idle" =>
    /\ IF SpeedWrites = <<>>
         THEN stir_speed = 0
         ELSE Last(SpeedWrites).data = SpeedCommand(stir_speed)
    /\ IF TempWrites = <<>>
         THEN temp_target = Num(20 * Scale)
         ELSE /\ IsNumber(temp_target)
              /\ temp_target.v % Scale = 0
              /\ Last(TempWrites).data = TempCommand(temp_target.v \div Scale)

\* The trace of a stir that waits twice, for a coerced speed k.
StirTrace(k, stir_s, settle_s) ==
  << WriteEvent(ser, SpeedCommand(k), TRUE),
     WriteEvent(ser, IF k > 0 THEN StartCommand ELSE StopCommand, TRUE),
     SleepEvent(stir_s, Num(0)),
     WriteEvent(ser, SpeedCommand(0), TRUE),
     WriteEvent(ser, StopCommand, TRUE),
     SleepEvent(settle_s, Num(0)),
     Return("True") >>

\* A stir whose three arguments are numbers, the two durations positive.
TimedStir ==
  /\ op.name = "stir"
  /\ \A i \in 1..3 : IsNumber(op.args[i])
  /\ op.args[1].v > 0
  /\ op.args[3].v > 0

\* C5 as stated: for stir_time > 0, stir_speed n > 0 and settling_time > 0 a
\* stir without transport failure does OUT_SP_4 n, START_4, the stir wait,
\* OUT_SP_4 0, STOP_4, the settling wait, return true.  (OUT_SP_4 carries the
\* integer part of n.)
C5_Original ==
  (TimedStir /\ op.args[2].v > 0 /\ pc = "done") =>
    /\ Datas(trace)[2] = StartCommand
    /\ Datas(trace) = <<SpeedCommand(Trunc(op.args[2].v)), StartCommand,
                        SpeedCommand(0), StopCommand>>

\* C5 amended: for finite stir_time > 0 and settling_time > 0 and a number n
\* with k = int(float(n)), a stir without transport failure does exactly
\* OUT_SP_4 k, START_4 when k > 0 (STOP_4 when k <= 0, as for 0 < n < 1), a
\* wait of stir_time, OUT_SP_4 0, STOP_4, a wait of settling_time, return true,
\* in this order: each wait has fully elapsed before what follows it.
C5_StirTrace ==
  (TimedStir /\ NoFailure) =>
    LET whole == StirTrace(Trunc(op.args[2].v), op.args[1], op.args[3])
    IN  /\ IsPrefix(trace, whole)
        /\ pc = "done" => trace = whole
        /\ pc = "sleep" => Len(trace) \in {2, 5}

\* stir(1.0, 2.0, 0.5) has returned after its two waits.
C5_Witness ==
  /\ pc = "done"
  /\ op.name = "stir"
  /\ op.args = <<Num(2), Num(2 * Scale), Num(1)>>
  /\ trace = StirTrace(2, Num(2), Num(1))
  /\ Datas(wire) = <<Command(<<OUT_SP_4, <<"2">>>>), StartCommand,
                     SpeedCommand(0), StopCommand>>

\* The last two commands of the call in progress are OUT_SP_4 0 and STOP_4,
\* both written.
EndsStopped ==
  LET w == Writes(trace)
  IN  /\ Len(w) >= 2
      /\ w[Len(w) - 1] = WriteEvent(ser, SpeedCommand(0), TRUE)
      /\ w[Len(w)] = WriteEvent(ser, StopCommand, TRUE)

\* C6 as stated: a stir that has issued its first set_stir_speed does not
\* finish, by returning or by raising, without OUT_SP_4 0 and STOP_4 as its
\* last commands, whether or not a send fails.  (Read for a first
\* set_stir_speed that has written both of its commands.)
C6_Original ==
  ( /\ op.name = "stir"
    /\ Finished
    /\ Len(Writes(trace)) >= 2
    /\ Writes(trace)[1].ok
    /\ Writes(trace)[2].ok ) => EndsStopped

\* C6 amended: for every stir_speed, 0 included, a stir returns only after
\* set_stir_speed(0): OUT_SP_4 0 then STOP_4 are its last commands and it has
\* written four commands; a stir in which a send fails raises at once, the
\* failed write being its last, without stopping the motor.
C6_StirStopsUnlessFailed ==
  op.name = "stir" =>
    /\ pc = "done" => EndsStopped /\ Len(Writes(trace)) = 4 /\ NoFailure
    /\ (pc = "raised" /\ Writes(trace) # <<>>) =>
         /\ ~Last(Writes(trace)).ok
         /\ \A i \in 1..(Len(Writes(trace)) - 1) : Writes(trace)[i].ok
    /\ pc = "done" => Last(trace) = Return("True")

\* stir(0, 2.0, 0) has returned: started, then stopped.
C6_Witness ==
  /\ pc = "done"
  /\ op.name = "stir"
  /\ op.args[2] = Num(2 * Scale)
  /\ op.args[1] = Num(0)
  /\ Datas(trace) = <<Command(<<OUT_SP_4, <<"2">>>>), StartCommand,
                      SpeedCommand(0), StopCommand>>

\* A duration that is 0, negative or no number at all.
ClampsToZero(x) == (IsNumber(x) /\ x.v <= 0) \/ x.k \in {"text", "obj"}

\* C7: stir with stir_speed 0 and durations that are 0, negative or
\* unparsable writes OUT_SP_4 0, STOP_4, OUT_SP_4 0, STOP_4, never waits, and
\* returns true.
C7_StirZero ==
  ( /\ op.name = "stir"
    /\ ClampsToZero(op.args[1])
    /\ op.args[2] = Num(0)
    /\ ClampsToZero(op.args[3]) ) =>
    LET whole == << WriteEvent(ser, SpeedCommand(0), TRUE),
                    WriteEvent(ser, StopCommand, TRUE),
                    WriteEvent(ser, SpeedCommand(0), TRUE),
                    WriteEvent(ser, StopCommand, TRUE),
                    Return("True") >>
    IN  /\ pc # "sleep"
        /\ Sleeps(trace) = <<>>
        /\ NoFailure => IsPrefix(trace, whole)
        /\ pc = "done" => trace = whole

\* stir(-0.5, 0, "bad") has returned without waiting.
C7_Witness ==
  /\ pc = "done"
  /\ op.name = "stir"
  /\ op.args = <<Num(-1), Num(0), Text>>
  /\ Len(trace) = 5
  /\ Datas(wire) = <<SpeedCommand(0), StopCommand, SpeedCommand(0), StopCommand>>

\* The call in progress has raised a transport failure.
TransportFailed ==
  /\ pc = "raised"
  /\ Last(trace) \in {Raise("SerialException"), Raise("SerialTimeoutException")}

\* C8: for every stir_speed whose conversion to an integer fails (text, an
\* object, an infinity, a NaN), start_stir raises nothing, uses speed 0, writes
\* OUT_SP_4 0 then STOP_4 and returns true.
C8_StartStirBadSpeed ==
  ( /\ op.name = "start_stir"
    /\ Finished
    /\ op.args[1].k \in {"text", "obj", "inf", "ninf", "nan"}
    /\ ~TransportFailed ) =>
    /\ pc = "done"
    /\ trace = << WriteEvent(ser, SpeedCommand(0), TRUE),
                  WriteEvent(ser, StopCommand, TRUE),
                  Return("True") >>

\* C9: whatever set_stir_speed calls came before, successful or failed, a read
\* of status returns "Idle" when the stored stir_speed is 0 and "Running" when
\* it is not, and that is the value status then holds.
C9_StatusFollowsSpeed ==
  (pc = "done" /\ op.name = "status") =>
    /\ Last(trace) = Return(status)
    /\ stir_speed = 0 => status = "Idle"
    /\ stir_speed # 0 => status = "Running"

\* status is read as "Running" at speed 2 after a set_stir_speed that failed.
C9_Witness ==
  /\ pc = "done"
  /\ op.name = "status"
  /\ stir_speed = 2
  /\ Last(trace) = Return("Running")
  /\ wire # <<>>
  /\ ~Last(wire).ok


\* C11: on one client, whatever open(), close() and send() calls were made
\* and whichever opens failed, at most one session is open, it is the client's
\* current one, and a call sets up a session only when the client had none
\* open on entry (absent or closed), one session at most.
C11_OneSessionOpen ==
  /\ Cardinality(openSess) <= 1
  /\ openSess \subseteq {ser}
  /\ (Finished /\ created # pre.created) =>
       /\ ~pre.isOpen
       /\ created = pre.created + 1
       /\ Setups(trace) = <<[e |-> "open", sess |-> created]>>

\* After close(), a send on the closed first session has set up the second:
\* the first is closed, the second open.
C11_Witness ==
  /\ pc = "done"
  /\ op.name = "send"
  /\ pre.ser = 1
  /\ ~pre.isOpen
  /\ prev.name = "close"
  /\ created = 2
  /\ openSess = {2}

\* C12: every write of a command is made on the client's session while it is
\* open; a call entered with no session or a closed one (after close() of the
\* client or of the facade) sets one up before its first write.
C12_WritesOnOpenSession ==
  /\ \A i \in DOMAIN trace :
       trace[i].e = "write" => trace[i].sess = ser /\ IsOpen
  /\ \A i \in DOMAIN wire : wire[i].sess \in 1..created
  /\ (~pre.isOpen /\ Writes(trace) # <<>>) =>
       /\ trace[1] = [e |-> "open", sess |-> ser]
       /\ created = pre.created + 1
       /\ Setups(trace) = <<trace[1]>>

\* stop_stir after close() of the facade: it has set up session 2 and written
\* OUT_SP_4 0 and STOP_4 on it.
C12_Witness ==
  /\ pc = "done"
  /\ op.name = "stop_stir"
  /\ ~pre.isOpen
  /\ pre.ser = 1
  /\ trace = << [e |-> "open", sess |-> 2],
                WriteEvent(2, SpeedCommand(0), TRUE),
                WriteEvent(2, StopCommand, TRUE),
                Return("True") >>
  /\ openSess = {2}

\* The names of the protocol actions.
Actions == {"start_stir", "stop_stir", "stir"}

\* C13: a protocol action that finishes either returns true, all the commands
\* of its set_stir_speed calls written (two for start_stir and stop_stir, four
\* for stir), or raises the transport failure of the send that failed, that
\* write being its last.
C13_TrueOrTransportFailure ==
  (op.name \in Actions /\ Finished) =>
    \/ /\ pc = "done"
       /\ Last(trace) = Return("True")
       /\ NoFailure
       /\ Len(Writes(trace)) = (IF op.name = "stir" THEN 4 ELSE 2)
    \/ /\ TransportFailed
       /\ WriteFailed
       /\ Last(trace) = Raise("SerialTimeoutException")

\* C14: a send whose write fails has attempted that one write, raises the
\* write failure and leaves the session open; the send that follows sets up no
\* session and makes its one write on that same session.
C14_FailedWriteKeepsSession ==
  /\ (op.name \in {"send", "set_speed"} /\ WriteFailed) =>
       /\ Len(Writes(trace)) = 1
       /\ Last(trace) = Raise("SerialTimeoutException")
       /\ IsOpen
       /\ Writes(trace)[1].sess = ser
       /\ created = pre.created + Len(Setups(trace))
  /\ ( /\ Finished
       /\ op.name \in {"send", "set_speed"}
       /\ prev.name \in {"send", "set_speed"}
       /\ prev.exc = "SerialTimeoutException" ) =>
       /\ pre.isOpen
       /\ Setups(trace) = <<>>
       /\ created = pre.created
       /\ ser = pre.ser
       /\ IsOpen
       /\ Len(Writes(trace)) = 1
       /\ Len(wire) >= 2
       /\ ~wire[Len(wire) - 1].ok
       /\ wire[Len(wire)].sess = wire[Len(wire) - 1].sess

\* A send whose write failed on session 1 is followed by a send that wrote on
\* session 1, the only session ever set up.
C14_Witness ==
  /\ pc = "done"
  /\ op.name = "send"
  /\ prev.name = "send"
  /\ prev.exc = "SerialTimeoutException"
  /\ created = 1
  /\ Len(wire) = 2
  /\ ~wire[1].ok
  /\ wire[2] = WriteEvent(1, StopCommand, TRUE)

\* The integer a speed stands for: itself, or the float truncated.
IntegerOf(x) == IF x.k = "int" THEN x.v ELSE Trunc(x.v)

\* C16: for every rpm, whole or not, set_speed(rpm) with a session to write on
\* transmits OUT_SP_4 followed by rpm as integer text.
C16_SetSpeedIntegerText ==
  (Finished /\ op.name = "set_speed" /\ HadSession) =>
    /\ Len(Writes(trace)) = 1
    /\ Writes(trace)[1].data = SpeedCommand(IntegerOf(op.args[1]))

\* The motor commands written so far.
IsMotorWrite(w) == w.data \in {StartCommand, StopCommand}
MotorWrites == SelectSeq(wire, IsMotorWrite)

\* C20: when every write so far has succeeded, status reads "Running" exactly
\* when the last motor command written is START_4, and "Idle" exactly when it
\* is STOP_4 or none was written.
C20_StatusAgreesWithMotor ==
  (pc = "done" /\ op.name = "status" /\ \A i \in DOMAIN wire : wire[i].ok) =>
    LET started == MotorWrites # <<>> /\ Last(MotorWrites).data = StartCommand
    IN  /\ status = "Running" <=> started
        /\ status = "Idle" <=> ~started


\* The bytes a thread has accumulated that answer its own command.
Own(t) == SelectSeq(th[t].buf, LAMBDA b : b.x = th[t].x)

\* A thread waits inside read() with nothing to read.
BlockedInRead(t) == th[t].pc = "read" /\ Waits(t)

\* C15: without an overlap (no exchange reset the input buffer or wrote its
\* command while another was between its write and the end of its read loop)
\* an exchange that returns has accumulated every byte the device sent in
\* answer to it before it left its loop, and, no answer being late, nothing
\* else; with an overlap this fails (the witness).
C15_SerialisedExchangesAreClean ==
  ~hist.overlap =>
    \A t \in Threads :
      th[t].pc = "returned" =>
        /\ Own(t) = th[t].due
        /\ ~hist.late => th[t].buf = th[t].due /\ th[t].resp = Response(th[t].due)

\* Two workers overlapped and no answer was late: one has returned, as its
\* response, the answer to the command of the other, which has returned
\* nothing.
C15_Witness ==
  /\ hist.overlap
  /\ ~hist.late
  /\ \E t \in Threads, u \in Threads :
       /\ t # u
       /\ th[t].pc = "returned"
       /\ th[u].pc = "returned"
       /\ th[t].resp # <<>>
       /\ \E i \in DOMAIN th[t].resp : th[t].resp[i].x = th[u].x
       /\ th[u].resp = <<>>
       /\ th[u].due # <<>>

\* C17: send returns only once its deadline, set a timeout after the settle
\* delay, has passed and the input buffer was seen empty, however early the
\* answer came; it then holds every byte received for it; while the loop goes
\* on it reads what it has seen waiting, or one byte when it has seen none,
\* which it does only before the deadline.
C17_ReadUntilQuiet ==
  \A t \in Threads :
    /\ th[t].pc = "returned" =>
         /\ now >= th[t].end
         /\ th[t].seen = 0
         /\ th[t].end >= th[t].wrote + Settle + Timeout
         /\ Own(t) = th[t].due
    /\ th[t].pc = "read" =>
         /\ th[t].n = size_to_read(th[t].seen)
         /\ th[t].seen = 0 => th[t].wake - Timeout < th[t].end

\* The deadline has passed and the answer was seen waiting: the loop reads on.
C17_Witness ==
  /\ th[1].pc = "read"
  /\ now >= th[1].end
  /\ th[1].seen = Len(ReplyText)
  /\ th[1].buf = <<>>

\* C18: from every state in which send has written its command the read loop
\* ends and send returns, and the loop never waits inside read() with nothing
\* to read.
C18_NeverBlocks ==
  /\ \A t \in Threads : (th[t].pc \in Window) ~> (th[t].pc \notin Window)
  /\ [](\A t \in Threads : ~BlockedInRead(t))

\* C19: the bytes unread in the input buffer when send is called are neither
\* accumulated nor returned by this send: they are gone from the buffer when
\* the command is about to be written, which it is not before the reset.
C19_StaleInputDiscarded ==
  \A t \in Threads :
    /\ Range(th[t].buf) \cap th[t].stale = {}
    /\ Range(th[t].resp) \cap th[t].stale = {}
    /\ th[t].pc = "reset" => Len(wire) = th[t].x - 1
    /\ th[t].pc = "write" =>
         /\ Len(wire) = th[t].x - 1
         /\ Range(inbuf) \cap th[t].stale = {}

\* The answer to OUT_SP_4 came after that send had returned and was unread
\* when the motor command was sent: this send has returned its own answer.
C19_Witness ==
  /\ th[1].pc = "returned"
  /\ th[1].x = 2
  /\ th[1].stale = Range(Reply(1))
  /\ th[1].resp = <<Reply(2)[1]>>
=============================================================================
